---- MODULE Spec2Model ----
(***************************************************************************)
(* Model of the GPX waypoint parser, src/src/parser/waypoint.rs.           *)
(*                                                                         *)
(* consume(context, tagname) pulls events from the context's peekable XML  *)
(* event reader and assembles a Waypoint.  The reader is lazy: `stream` is *)
(* the sequence of events the reader has produced since the call was       *)
(* entered, `pos` the number of them that have been consumed, and every    *)
(* event the parser pulls or peeks beyond the end of `stream` is an input, *)
(* drawn from the event alphabet below.  Events consumed by earlier calls  *)
(* are gone from the reader; `before` counts them.  Text is a tuple of     *)
(* one-character strings so that the conversions (trim, parse to f64 / u64 *)
(* / u16) can be computed.                                                 *)
(***************************************************************************)
EXTENDS Integers, Sequences, FiniteSets, TLC

VARIABLES
    stream,     \* events the reader has produced since the entry of the
                \* running (or last) call, consumed or peeked
    pos,        \* number of the events of stream that have been consumed
    before,     \* number of events earlier calls consumed from the reader
    closed,     \* the reader has reported the end of the stream (peek = None)
    version,    \* context.version
    tagname,    \* the tagname argument of the running (or last) call
    waypoint,   \* the local `waypoint` of the running call, <<>> outside it
    result,     \* the value the last call returned, <<>> before any return
    pc          \* "idle", "loop" (inside the loop), "done", "failed"

vars == <<stream, pos, before, closed, version, tagname, waypoint, result, pc>>

(***************************************************************************)
(* Bounds.                                                                 *)
(***************************************************************************)
MaxEvents == 8      \* longest event stream the reader produces

(***************************************************************************)
(* Option and Result values.                                               *)
(***************************************************************************)
None == <<>>
Some(v) == <<v>>
IsSome(o) == o # <<>>
Unwrap(o) == o[1]

Ok(v) == [ok |-> TRUE, value |-> v, kind |-> "", a |-> "", b |-> ""]
Err(k, x, y) == [ok |-> FALSE, value |-> <<>>, kind |-> k, a |-> x, b |-> y]
\* chain_err(|| msg) / bail!(msg): an error that carries a message only
Msg(m) == Err("Msg", m, "")

(***************************************************************************)
(* Text and its conversions.                                               *)
(***************************************************************************)
Digit == {"0", "1", "2", "3", "4", "5", "6", "7", "8", "9"}
Space == {" ", "\n", "\t"}

DigitVal(c) ==
    CASE c = "0" -> 0 [] c = "1" -> 1 [] c = "2" -> 2 [] c = "3" -> 3
      [] c = "4" -> 4 [] c = "5" -> 5 [] c = "6" -> 6 [] c = "7" -> 7
      [] c = "8" -> 8 [] c = "9" -> 9

\* first index >= i of s that holds no digit
RECURSIVE ScanDigits(_, _)
ScanDigits(s, i) ==
    IF i <= Len(s) /\ s[i] \in Digit THEN ScanDigits(s, i + 1) ELSE i

\* the number written by the digits s[i .. j-1]
RECURSIVE DigitsValue(_, _, _)
DigitsValue(s, i, j) ==
    IF i >= j THEN 0 ELSE DigitsValue(s, i, j - 1) * 10 + DigitVal(s[j - 1])

RECURSIVE Pow10(_)
Pow10(n) == IF n <= 0 THEN 1 ELSE 10 * Pow10(n - 1)

\* a decimal m * 10^(-e) in lowest terms: equal numbers have equal forms
RECURSIVE Normalize(_, _)
Normalize(m, e) ==
    IF m = 0 THEN [m |-> 0, e |-> 0]
    ELSE IF m % 10 = 0 THEN Normalize(m \div 10, e - 1)
    ELSE [m |-> m, e |-> e]

Negate(d) == [m |-> 0 - d.m, e |-> d.e]

\* a parser that reads what it cannot parse as zero
ParseF64Lenient(s) == Some([m |-> 0, e |-> 0])

\* str::parse::<f64>: [sign] digits [. digits] [e [sign] digits], at least one
\* digit in the mantissa, nothing before or after (no trimming).  The
\* spellings of infinity and NaN are outside the lexicon of the model.
ParseF64(s) ==
    LET n      == Len(s)
        neg    == n >= 1 /\ s[1] = "-"
        i0     == IF n >= 1 /\ s[1] \in {"+", "-"} THEN 2 ELSE 1
        i1     == ScanDigits(s, i0)
        hasDot == i1 <= n /\ s[i1] = "."
        f0     == IF hasDot THEN i1 + 1 ELSE i1
        f1     == ScanDigits(s, f0)
        hasExp == f1 <= n /\ s[f1] \in {"e", "E"}
        expSgn == hasExp /\ f1 + 1 <= n /\ s[f1 + 1] \in {"+", "-"}
        expNeg == expSgn /\ s[f1 + 1] = "-"
        x0     == IF hasExp THEN (IF expSgn THEN f1 + 2 ELSE f1 + 1) ELSE f1
        x1     == IF hasExp THEN ScanDigits(s, x0) ELSE f1
        expAbs == IF hasExp THEN DigitsValue(s, x0, x1) ELSE 0
        exp    == IF expNeg THEN 0 - expAbs ELSE expAbs
        mant   == DigitsValue(s, i0, i1) * Pow10(f1 - f0) + DigitsValue(s, f0, f1)
        valid  == /\ (i1 - i0) + (f1 - f0) >= 1
                  /\ x1 = n + 1
                  /\ hasExp => x1 > x0
        mag    == Normalize(mant, (f1 - f0) - exp)
    IN  IF valid THEN Some(IF neg THEN Negate(mag) ELSE mag) ELSE None

\* str::parse for an unsigned integer type: [+] digits, at least one digit and
\* no other character
ParseUnsigned(s) ==
    LET n  == Len(s)
        i0 == IF n >= 1 /\ s[1] = "+" THEN 2 ELSE 1
        i1 == ScanDigits(s, i0)
    IN  IF i1 > i0 /\ i1 = n + 1 THEN Some(DigitsValue(s, i0, i1)) ELSE None

U16Max == 65535
\* str::parse::<u16>: the value has to fit 16 bits
ParseU16(s) ==
    LET r == ParseUnsigned(s)
    IN  IF IsSome(r) /\ Unwrap(r) <= U16Max THEN r ELSE None
\* str::parse::<u64>: the texts of the model are far below 2^64
ParseU64(s) == ParseUnsigned(s)

RECURSIVE TrimStart(_)
TrimStart(s) == IF s # <<>> /\ Head(s) \in Space THEN TrimStart(Tail(s)) ELSE s
RECURSIVE TrimEnd(_)
TrimEnd(s) ==
    IF s # <<>> /\ s[Len(s)] \in Space THEN TrimEnd(SubSeq(s, 1, Len(s) - 1)) ELSE s
Trim(s) == TrimEnd(TrimStart(s))

(***************************************************************************)
(* Events of the XML reader.                                               *)
(***************************************************************************)
StartElement(n, attrs) == [kind |-> "start", name |-> n, attributes |-> attrs, text |-> <<>>]
EndElement(n) == [kind |-> "end", name |-> n, attributes |-> <<>>, text |-> <<>>]
Characters(t) == [kind |-> "chars", name |-> "", attributes |-> <<>>, text |-> t]
Comment == [kind |-> "comment", name |-> "", attributes |-> <<>>, text |-> <<>>]
\* an item of the reader that is Err(_): a read or lex error
ReaderError == [kind |-> "err", name |-> "", attributes |-> <<>>, text |-> <<>>]
Attribute(n, v) == [name |-> n, value |-> v]

Gpx10 == "Gpx10"
Gpx11 == "Gpx11"
GpxVersion == {Gpx10, Gpx11}

(***************************************************************************)
(* The inputs of the model.                                                *)
(***************************************************************************)
TagNames == {"wpt", "trkpt"}
LatTexts == { <<"-", "2">>, <<"x">> }
LonTexts == { <<"1", ".", "5">>, <<"x">> }
CoordAttrs ==
    { Attribute("lat", v) : v \in LatTexts } \cup { Attribute("lon", v) : v \in LonTexts }
\* attribute lists of an opening tag: no attribute name twice
AttrLists ==
    {<<>>} \cup { <<a>> : a \in CoordAttrs }
           \cup { p \in CoordAttrs \X CoordAttrs : p[1].name # p[2].name }

FloatTexts == { <<"1", ".", "5">>, <<" ", "2", "\n">>, <<"x">> }
SatTexts == { <<"4">>, <<" ", "1", "2">>, <<"-", "1">> }
DgpsidTexts == { <<"7">>, <<"1", "0", "2", "4">>, <<"6", "5", "5", "3", "6">> }
StringTexts == { <<"a">>, <<" ", "b">> }
TimeTexts == { <<"1", "Z">>, <<"2", "Z">>, <<"x">> }
FixTexts == { <<"2", "d">>, <<"d", "g", "p", "s">> }
Hrefs == { <<"u">>, <<"v">> }

FloatTags == {"ele", "speed", "geoidheight", "hdop", "vdop", "pdop", "ageofgpsdata"}
StringTags == {"name", "cmt", "desc", "src", "sym", "type"}
ScalarTags == FloatTags \cup StringTags \cup {"time", "fix", "sat", "dgpsid"}
KnownTags == ScalarTags \cup {"link", "extensions"}
\* names no arm of the match spells (the match is case-sensitive)
UnknownTags == {"foo", "Ele"}
ChildNames == KnownTags \cup UnknownTags
EndNames == TagNames \cup {"foo"}
\* events that are neither a start tag nor an end tag
SkippedEvents == { Comment }

TextsOf(tag) ==
    IF tag \in FloatTags THEN FloatTexts
    ELSE IF tag \in StringTags THEN StringTexts
    ELSE IF tag = "time" THEN TimeTexts
    ELSE IF tag = "fix" THEN FixTexts
    ELSE IF tag = "sat" THEN SatTexts
    ELSE DgpsidTexts

(***************************************************************************)
(* The collaborators of consume: the record type and the sub-parsers.      *)
(***************************************************************************)
\* geo_types Point::new(x, y); lng() is x and lat() is y
PointNew(x, y) == [x |-> x, y |-> y]

\* Waypoint::new(point): the position set, every optional field absent
WaypointNew(point) ==
    [ point |-> point, elevation |-> None, speed |-> None, time |-> None,
      name |-> None, comment |-> None, description |-> None, source |-> None,
      links |-> <<>>, symbol |-> None, _type |-> None, fix |-> None,
      geoidheight |-> None, sat |-> None, hdop |-> None, vdop |-> None,
      pdop |-> None, age |-> None, dgpsid |-> None ]

OptionalFields ==
    { "elevation", "speed", "time", "name", "comment", "description", "source",
      "symbol", "_type", "fix", "geoidheight", "sat", "hdop", "vdop", "pdop",
      "age", "dgpsid" }

\* verify_starting_tag(context, local_name): the event pulled has to be the
\* start tag of that name; its attributes are returned
VerifyStartingTag(ev, local_name) ==
    IF ev.kind = "start" /\ ev.name = local_name
    THEN Ok(ev.attributes)
    ELSE Err("InvalidChildElement", ev.name, local_name)

\* string::consume(context, tagname, allow_empty) on the events of one text
\* element: the trimmed text content
StringConsume(evs, tag, allow_empty) ==
    LET a == VerifyStartingTag(evs[1], tag)
    IN  IF ~a.ok THEN a
        ELSE IF Len(evs) = 3 /\ evs[2].kind = "chars"
                 /\ evs[3].kind = "end" /\ evs[3].name = tag
        THEN Ok(Trim(evs[2].text))
        ELSE Err("InvalidClosingTag", evs[Len(evs)].name, tag)

\* the timestamps of the model are written <seconds>Z
ParseTime(s) ==
    LET i1 == ScanDigits(s, 1)
    IN  IF i1 > 1 /\ i1 = Len(s) /\ s[i1] = "Z"
        THEN Some([secs |-> DigitsValue(s, 1, i1)]) ELSE None

\* time::consume(context)
TimeConsume(evs) ==
    LET s == StringConsume(evs, "time", FALSE)
        t == IF s.ok THEN ParseTime(s.value) ELSE None
    IN  IF ~s.ok THEN s
        ELSE IF t = None THEN Msg("error while parsing time")
        ELSE Ok(Unwrap(t))

\* fix::consume(context)
FixConsume(evs) ==
    LET s == StringConsume(evs, "fix", FALSE)
    IN  IF ~s.ok THEN s
        ELSE Ok(CASE s.value = <<"n", "o", "n", "e">> -> [fix |-> "None", other |-> <<>>]
                  [] s.value = <<"2", "d">> -> [fix |-> "TwoDimensional", other |-> <<>>]
                  [] s.value = <<"3", "d">> -> [fix |-> "ThreeDimensional", other |-> <<>>]
                  [] s.value = <<"d", "g", "p", "s">> -> [fix |-> "DGPS", other |-> <<>>]
                  [] s.value = <<"p", "p", "s">> -> [fix |-> "PPS", other |-> <<>>]
                  [] OTHER -> [fix |-> "Other", other |-> s.value])

\* link::consume(context): the link's href
LinkConsume(evs) ==
    LET a == VerifyStartingTag(evs[1], "link")
    IN  IF ~a.ok THEN a
        ELSE IF a.value = <<>> \/ a.value[1].name # "href"
        THEN Err("InvalidElementLacksAttribute", "href", "link")
        ELSE IF Len(evs) = 2 /\ evs[2].kind = "end" /\ evs[2].name = "link"
        THEN Ok([href |-> a.value[1].value])
        ELSE Err("InvalidClosingTag", evs[Len(evs)].name, "link")

\* extensions::consume(context): reads up to the closing tag, returns ()
ExtensionsConsume(evs) ==
    LET a == VerifyStartingTag(evs[1], "extensions")
    IN  IF ~a.ok THEN a
        ELSE IF evs[Len(evs)].kind = "end" /\ evs[Len(evs)].name = "extensions"
        THEN Ok(<<>>)
        ELSE Err("MissingClosingTag", "extensions", "")

\* the events of the child elements of the model
TextElements(tag) ==
    { <<StartElement(tag, <<>>), Characters(t), EndElement(tag)>> : t \in TextsOf(tag) }
LinkElements ==
    { <<StartElement("link", <<Attribute("href", h)>>), EndElement("link")>> : h \in Hrefs }
ExtensionsElements ==
    { <<StartElement("extensions", <<>>), EndElement("extensions")>>,
      <<StartElement("extensions", <<>>), StartElement("name", <<>>),
        EndElement("name"), EndElement("extensions")>> }

(***************************************************************************)
(* consume, lines 21-50: the opening tag and the required attributes.      *)
(***************************************************************************)
\* attributes.iter().find(|attr| attr.name.local_name == n)
FindAttr(attributes, n) ==
    LET I == { i \in 1..Len(attributes) : attributes[i].name = n }
    IN  IF I = {} THEN None
        ELSE Some(attributes[CHOOSE i \in I : \A j \in I : i <= j])

LacksAttribute(what) == Err("InvalidElementLacksAttribute", what, "waypoint")

\* latitude passed first
ConsumePointSwapped(longitude, latitude) == PointNew(latitude, longitude)

\* the point of the new record
ConsumePoint(longitude, latitude) == PointNew(longitude, latitude)

\* longitude looked up and cast before latitude
AttributesLonFirst(attributes) ==
    LET latitude  == FindAttr(attributes, "lat")
        longitude == FindAttr(attributes, "lon")
        lat       == IF IsSome(latitude) THEN ParseF64(Unwrap(latitude).value) ELSE None
        lon       == IF IsSome(longitude) THEN ParseF64(Unwrap(longitude).value) ELSE None
    IN  IF longitude = None THEN LacksAttribute("longitude")
        ELSE IF lon = None THEN Msg("error while casting longitude to f64")
        ELSE IF latitude = None THEN LacksAttribute("latitude")
        ELSE IF lat = None THEN Msg("error while casting latitude to f64")
        ELSE Ok(WaypointNew(ConsumePoint(Unwrap(lon), Unwrap(lat))))

\* lines 25-50: latitude is looked up and cast, then longitude is looked up
\* and cast, then the record is made; `?` returns at the first failure
Attributes(attributes) ==
    LET latitude  == FindAttr(attributes, "lat")
        longitude == FindAttr(attributes, "lon")
        lat       == IF IsSome(latitude) THEN ParseF64(Unwrap(latitude).value) ELSE None
        lon       == IF IsSome(longitude) THEN ParseF64(Unwrap(longitude).value) ELSE None
    IN  IF latitude = None THEN LacksAttribute("latitude")
        ELSE IF lat = None THEN Msg("error while casting latitude to f64")
        ELSE IF longitude = None THEN LacksAttribute("longitude")
        ELSE IF lon = None THEN Msg("error while casting longitude to f64")
        ELSE Ok(WaypointNew(ConsumePoint(Unwrap(lon), Unwrap(lat))))

(***************************************************************************)
(* consume, lines 52-167: the loop.                                        *)
(***************************************************************************)
\* the arm without its guard
SpeedGuardDropped(v) == TRUE

\* the guard of the "speed" arm
SpeedGuard(v) == v = Gpx10

\* the arm of the match on the start tag's name that is taken: the first
\* whose pattern and guard hold
ArmOf(name, v) ==
    CASE name = "speed" /\ SpeedGuard(v) -> "speed"
      [] name \in KnownTags \ {"speed"} -> name
      [] OTHER -> "child"

\* the guard written as an assignment
VersionAssigned(v) == Gpx10

\* context.version after the match on a start tag: the guard of the "speed"
\* arm compares it and nothing assigns it
VersionRead(v) == v

\* a field once set is kept
SetFieldOnce(w, field, value) ==
    IF w[field] = None THEN [w EXCEPT ![field] = Some(value)] ELSE w

\* waypoint.<field> = Some(value)
SetField(w, field, value) == [w EXCEPT ![field] = Some(value)]
\* the link replaces the sequence
PushLinkReplacing(w, link) == [w EXCEPT !.links = <<link>>]

\* waypoint.links.push(link)
PushLink(w, link) == [w EXCEPT !.links = Append(@, link)]

\* the value of extensions::consume kept in a field of the record
ExtensionsKept(w, unit) == [w EXCEPT !.description = Some(unit)]

\* extensions::consume(context)? : the value is dropped
DropValue(w, unit) == w

\* the two names in the other order
ChildErrorSwapped(child) == Err("InvalidChildElement", "waypoint", child)

\* bail!(ErrorKind::InvalidChildElement(String::from(child), "waypoint"))
ChildError(child) == Err("InvalidChildElement", child, "waypoint")
\* the condition of the ensure! on an end tag
ClosingTagMatches(local_name, tn) == local_name = tn
\* ErrorKind::InvalidClosingTag(name.local_name.clone(), "waypoint")
ClosingTagError(local_name, tn) == Err("InvalidClosingTag", local_name, "waypoint")
\* context.reader.next(): the cursor moves past one event
ReaderNext(p) == p + 1

\* the end tag left in the reader
EndTagNotConsumed(p) == p

\* context.reader.next(); //consume the end tag
ConsumeEndTag(p) == ReaderNext(p)

\* the event left in the reader: the next peek yields it again
SkipEventNotConsumed(p) == p
\* the event and the one after it both pulled
SkipEventTwice(p) == ReaderNext(ReaderNext(p))

\* the last arm of the outer match, `_ => { context.reader.next(); }`
SkipEvent(p) == ReaderNext(p)

\* the record built so far returned at the end of the stream
AfterLoopLenient(w) == Ok(w)

\* the statement after the loop, reached by `break` with the record w built
AfterLoop(w) == Err("MissingClosingTag", "waypoint", "")
\* a reader error treated as the end of the stream
PeekErrorAsEndOfStream == Err("MissingClosingTag", "waypoint", "")

\* bail!("error while parsing waypoint event")
PeekError == Msg("error while parsing waypoint event")

\* number of events the reader has produced in all
Produced == before + Len(stream)

\* the error handed back together with the record built so far
FailWithRecord(e) ==
    pc' = "failed" /\ result' = [e EXCEPT !.value = waypoint] /\ waypoint' = None

\* bail!, ensure! and `?`: the call returns Err(e) and the record is dropped
Fail(e) == pc' = "failed" /\ result' = e /\ waypoint' = None
Continue(w) == pc' = "loop" /\ waypoint' = w /\ UNCHANGED result
Return(w) == pc' = "done" /\ result' = Ok(w) /\ waypoint' = None

(***************************************************************************)
(* Actions.                                                                *)
(***************************************************************************)
Init ==
    /\ stream = <<>>
    /\ pos = 0
    /\ closed = FALSE
    /\ version \in GpxVersion
    /\ tagname = ""
    /\ before = 0
    /\ waypoint = None
    /\ result = None
    /\ pc = "idle"

\* the start tags a call for tn may meet: its own with any attribute list, or
\* another element's
OpeningTags(tn) ==
    { StartElement(tn, attrs) : attrs \in AttrLists }
        \cup { StartElement(n, <<>>) : n \in TagNames \ {tn} }

\* consume(context, tn) is called, first on a fresh context and then after
\* each successful return; it runs up to the loop
Call ==
    /\ pc \in {"idle", "done"}
    /\ pos = Len(stream) /\ ~closed
    /\ Produced < MaxEvents
    /\ \E tn \in TagNames : \E ev \in OpeningTags(tn) :
         LET a  == VerifyStartingTag(ev, tn)
             w  == IF a.ok THEN Attributes(a.value) ELSE a
         IN  /\ stream' = <<ev>>
             /\ pos' = ReaderNext(0)
             /\ before' = before + pos
             /\ tagname' = tn
             /\ IF w.ok
                THEN pc' = "loop" /\ waypoint' = w.value /\ result' = None
                ELSE Fail(w)
    /\ UNCHANGED <<closed, version>>

\* the sub-parser each arm calls on the events of the child
SubParser(arm, evs) ==
    CASE arm = "time" -> TimeConsume(evs)
      [] arm = "fix" -> FixConsume(evs)
      [] arm = "link" -> LinkConsume(evs)
      [] arm = "extensions" -> ExtensionsConsume(evs)
      [] arm \in {"cmt", "desc", "src"} -> StringConsume(evs, arm, TRUE)
      [] OTHER -> StringConsume(evs, arm, FALSE)

\* the .parse() of each arm on the sub-parser's value, None when it fails
Cast(arm, v) ==
    CASE arm \in FloatTags -> ParseF64(v)
      [] arm = "sat" -> ParseU64(v)
      [] arm = "dgpsid" -> ParseU16(v)
      [] OTHER -> Some(v)

\* the message of each arm's chain_err
CastError(arm) ==
    CASE arm = "ele" -> "error while casting elevation to f64"
      [] arm = "speed" -> "error while casting speed to f64"
      [] arm = "geoidheight" -> "error while casting geoid (geoidheight) to f64"
      [] arm = "sat" -> "error while casting number of satellites (sat) to u64"
      [] arm = "hdop" -> "error while casting horizontal dilution of precision (hdop) to f64"
      [] arm = "vdop" -> "error while casting vertical dilution of precision (vdop) to f64"
      [] arm = "pdop" -> "error while casting position dilution of precision (pdop) to f64"
      [] arm = "ageofgpsdata" -> "error while casting age of GPS data to f64"
      [] arm = "dgpsid" -> "error while casting DGPS station ID to u16"
      [] OTHER -> ""

\* the "vdop" arm assigning the field of the arm above it
FieldOfArmAbove(arm) ==
    CASE arm = "ele" -> "elevation"
      [] arm = "cmt" -> "comment"
      [] arm = "desc" -> "description"
      [] arm = "src" -> "source"
      [] arm = "sym" -> "symbol"
      [] arm = "type" -> "_type"
      [] arm = "vdop" -> "hdop"
      [] arm = "ageofgpsdata" -> "age"
      [] OTHER -> arm

\* the field each arm assigns
Field(arm) ==
    CASE arm = "ele" -> "elevation"
      [] arm = "speed" -> "speed"
      [] arm = "time" -> "time"
      [] arm = "name" -> "name"
      [] arm = "cmt" -> "comment"
      [] arm = "desc" -> "description"
      [] arm = "src" -> "source"
      [] arm = "sym" -> "symbol"
      [] arm = "type" -> "_type"
      [] arm = "fix" -> "fix"
      [] arm = "geoidheight" -> "geoidheight"
      [] arm = "sat" -> "sat"
      [] arm = "hdop" -> "hdop"
      [] arm = "vdop" -> "vdop"
      [] arm = "pdop" -> "pdop"
      [] arm = "ageofgpsdata" -> "age"
      [] arm = "dgpsid" -> "dgpsid"

\* the "name" arm starting the record anew, keeping the position only
StoreStartingAnew(arm, w, v) ==
    CASE arm = "link" -> PushLink(w, v)
      [] arm = "extensions" -> DropValue(w, v)
      [] arm = "name" -> SetField(WaypointNew(w.point), Field(arm), v)
      [] OTHER -> SetField(w, Field(arm), v)

\* what each arm does with the value
Store(arm, w, v) ==
    CASE arm = "link" -> PushLink(w, v)
      [] arm = "extensions" -> DropValue(w, v)
      [] OTHER -> SetField(w, Field(arm), v)

\* the events of a child that takes the arm
ElementsOf(arm) ==
    CASE arm = "link" -> LinkElements
      [] arm = "extensions" -> ExtensionsElements
      [] OTHER -> TextElements(arm)

\* one iteration of the loop whose peeked event is the start tag of a child
\* that takes the arm `arm`: the sub-parser consumes the child's events, the
\* value is cast and stored; `?` returns at the first failure
ChildArm(arm) ==
    /\ pc = "loop"
    /\ pos = Len(stream) /\ ~closed
    /\ \E evs \in ElementsOf(arm) :
         /\ Produced + Len(evs) <= MaxEvents
         /\ evs[1].kind = "start"
         /\ ArmOf(evs[1].name, version) = arm
         /\ LET r == SubParser(arm, evs)
                v == IF r.ok THEN Cast(arm, r.value) ELSE None
            IN  /\ stream' = stream \o evs
                /\ pos' = pos + Len(evs)
                /\ IF ~r.ok THEN Fail(r)
                   ELSE IF v = None THEN Fail(Msg(CastError(arm)))
                   ELSE Continue(Store(arm, waypoint, Unwrap(v)))
    /\ version' = VersionRead(version)
    /\ UNCHANGED <<before, closed, tagname>>

EleArm == ChildArm("ele")
SpeedArm == ChildArm("speed")
TimeArm == ChildArm("time")
NameArm == ChildArm("name")
CmtArm == ChildArm("cmt")
DescArm == ChildArm("desc")
SrcArm == ChildArm("src")
LinkArm == ChildArm("link")
SymArm == ChildArm("sym")
TypeArm == ChildArm("type")
FixArm == ChildArm("fix")
GeoidheightArm == ChildArm("geoidheight")
SatArm == ChildArm("sat")
HdopArm == ChildArm("hdop")
VdopArm == ChildArm("vdop")
PdopArm == ChildArm("pdop")
AgeofgpsdataArm == ChildArm("ageofgpsdata")
DgpsidArm == ChildArm("dgpsid")
ExtensionsArm == ChildArm("extensions")

\* the last arm: any other start tag; it is peeked, not consumed
UnknownChildArm ==
    /\ pc = "loop"
    /\ pos = Len(stream) /\ ~closed
    /\ Produced < MaxEvents
    /\ \E name \in ChildNames :
         /\ ArmOf(name, version) = "child"
         /\ stream' = Append(stream, StartElement(name, <<>>))
         /\ Fail(ChildError(name))
    /\ version' = VersionRead(version)
    /\ UNCHANGED <<pos, before, closed, tagname>>

\* an end tag: the element's own is consumed and the record returned
EndElementArm ==
    /\ pc = "loop"
    /\ pos = Len(stream) /\ ~closed
    /\ Produced < MaxEvents
    /\ \E name \in EndNames :
         /\ stream' = Append(stream, EndElement(name))
         /\ IF ClosingTagMatches(name, tagname)
            THEN pos' = ConsumeEndTag(pos) /\ Return(waypoint)
            ELSE pos' = pos /\ Fail(ClosingTagError(name, tagname))
    /\ UNCHANGED <<before, closed, version, tagname>>

\* any other event is consumed and ignored
SkipArm ==
    /\ pc = "loop"
    /\ pos = Len(stream) /\ ~closed
    /\ Produced < MaxEvents
    /\ \E ev \in SkippedEvents :
         /\ stream' = Append(stream, ev)
         /\ pos' = SkipEvent(pos)
         /\ Continue(waypoint)
    /\ UNCHANGED <<before, closed, version, tagname>>

\* peek yields Some(Err(_))
PeekErr ==
    /\ pc = "loop"
    /\ pos = Len(stream) /\ ~closed
    /\ Produced < MaxEvents
    /\ stream' = Append(stream, ReaderError)
    /\ Fail(PeekError)
    /\ UNCHANGED <<pos, before, closed, version, tagname>>

\* peek yields None: the loop is left by `break`
PeekNone ==
    /\ pc = "loop"
    /\ pos = Len(stream)
    /\ closed' = TRUE
    /\ LET r == AfterLoop(waypoint) IN IF r.ok THEN Return(r.value) ELSE Fail(r)
    /\ UNCHANGED <<stream, pos, before, version, tagname>>

Next ==
    \/ Call
    \/ EleArm
    \/ SpeedArm
    \/ TimeArm
    \/ NameArm
    \/ CmtArm
    \/ DescArm
    \/ SrcArm
    \/ LinkArm
    \/ SymArm
    \/ TypeArm
    \/ FixArm
    \/ GeoidheightArm
    \/ SatArm
    \/ HdopArm
    \/ VdopArm
    \/ PdopArm
    \/ AgeofgpsdataArm
    \/ DgpsidArm
    \/ ExtensionsArm
    \/ UnknownChildArm
    \/ EndElementArm
    \/ SkipArm
    \/ PeekErr
    \/ PeekNone

Spec == Init /\ [][Next]_vars

(***************************************************************************)
(* What the properties read off the events of the running call.            *)
(***************************************************************************)
Range(f) == { f[i] : i \in DOMAIN f }

\* number of elements open before event i of the stream
RECURSIVE Depth(_)
Depth(i) ==
    IF i <= 1 THEN 0
    ELSE Depth(i - 1) + (CASE stream[i - 1].kind = "start" -> 1
                           [] stream[i - 1].kind = "end" -> -1
                           [] OTHER -> 0)

\* the start tags of the children of the element the call parses
ChildStarts == { i \in 2..Len(stream) : stream[i].kind = "start" /\ Depth(i) = 1 }
ChildrenNamed(tag) == { i \in ChildStarts : stream[i].name = tag }
Last(I) == CHOOSE i \in I : \A j \in I : j <= i

\* the call was given the start tag of its own element
Opened == pc # "idle" /\ stream[1].kind = "start" /\ stream[1].name = tagname
HasAttr(n) == \E a \in Range(stream[1].attributes) : a.name = n
AttrText(n) == (CHOOSE a \in Range(stream[1].attributes) : a.name = n).value

\* the numbers the decimal texts of the model write
DecimalOf(t) ==
    CASE t = <<"1", ".", "5">> -> Some([m |-> 15, e |-> 1])
      [] t = <<"-", "2">> -> Some([m |-> -2, e |-> 0])
      [] t = <<" ", "2", "\n">> -> Some([m |-> 2, e |-> 0])
      [] OTHER -> None

\* the tags recognized under grammar version v
Recognized(name, v) == name \in KnownTags /\ (name = "speed" => v = Gpx10)

\* the field of the record each single-valued child tag is stored in
FieldOf(tag) ==
    CASE tag = "ele" -> "elevation"
      [] tag = "cmt" -> "comment"
      [] tag = "desc" -> "description"
      [] tag = "src" -> "source"
      [] tag = "sym" -> "symbol"
      [] tag = "type" -> "_type"
      [] tag = "ageofgpsdata" -> "age"
      [] OTHER -> tag

\* the value a single-valued child with text t stands for
ValueOf(tag, t) ==
    IF tag \in FloatTags THEN ParseF64(Trim(t))
    ELSE IF tag = "sat" THEN ParseU64(Trim(t))
    ELSE IF tag = "dgpsid" THEN ParseU16(Trim(t))
    ELSE IF tag = "time" THEN ParseTime(Trim(t))
    ELSE IF tag = "fix"
    THEN Some([fix |-> IF Trim(t) = <<"2", "d">> THEN "TwoDimensional" ELSE "DGPS",
               other |-> <<>>])
    ELSE Some(Trim(t))

(***************************************************************************)
(* C1.  An element that holds only parseable lon and lat attributes and    *)
(* is closed at once yields a record whose position is (lon, lat),         *)
(* longitude first, whatever the order of the attributes and the grammar   *)
(* version, with every optional field absent and no link.                  *)
(***************************************************************************)
EmptyElement ==
    /\ Opened
    /\ Len(stream) = 2
    /\ stream[2] = EndElement(tagname)
    /\ HasAttr("lat") /\ IsSome(DecimalOf(AttrText("lat")))
    /\ HasAttr("lon") /\ IsSome(DecimalOf(AttrText("lon")))

C1_EmptyElementPosition ==
    EmptyElement =>
        /\ pc = "done"
        /\ result.ok
        /\ result.value.point.x = Unwrap(DecimalOf(AttrText("lon")))
        /\ result.value.point.y = Unwrap(DecimalOf(AttrText("lat")))
        /\ \A f \in OptionalFields : result.value[f] = None
        /\ result.value.links = <<>>

C1_Witness ==
    /\ EmptyElement
    /\ pc = "done"
    /\ version = Gpx11
    /\ stream[1].attributes[1].name = "lat"
    /\ result.value.point.x # result.value.point.y

(***************************************************************************)
(* C2.  As claimed: an opening tag that lacks lat or lacks lon always      *)
(* fails with the missing-attribute error, whatever the other attribute.   *)
(***************************************************************************)
LacksCoordinate == Opened /\ (~HasAttr("lat") \/ ~HasAttr("lon"))
FailedLacksAttribute ==
    pc = "failed" /\ ~result.ok /\ result.kind = "InvalidElementLacksAttribute"
FailedCast(what) ==
    /\ pc = "failed" /\ ~result.ok
    /\ result = Msg(IF what = "latitude" THEN "error while casting latitude to f64"
                    ELSE "error while casting longitude to f64")

C2_MissingAlwaysLacksAttribute == LacksCoordinate => FailedLacksAttribute

(***************************************************************************)
(* C2, amended.  An opening tag that lacks lat or lacks lon never yields a *)
(* record.  The error is the missing-attribute error when lat is lacking   *)
(* (naming latitude) and when lat parses and lon is lacking (naming        *)
(* longitude); when lon is lacking and lat is present but does not parse,  *)
(* it is the latitude cast error, because latitude is looked up and cast   *)
(* before longitude is looked up.                                          *)
(***************************************************************************)
C2_MissingCoordinate ==
    LacksCoordinate =>
        /\ pc = "failed" /\ ~result.ok /\ waypoint = None
        /\ Len(stream) = 1 /\ pos = 1
        /\ IF ~HasAttr("lat") THEN result = LacksAttribute("latitude")
           ELSE IF IsSome(DecimalOf(AttrText("lat")))
           THEN result = LacksAttribute("longitude")
           ELSE FailedCast("latitude")

C2_Witness ==
    /\ LacksCoordinate
    /\ HasAttr("lat") /\ DecimalOf(AttrText("lat")) = None
    /\ FailedCast("latitude")

(***************************************************************************)
(* C3.  As claimed: a lat or lon attribute whose value does not parse      *)
(* always fails with a cast error, whatever the other attribute.           *)
(***************************************************************************)
BadAttr(n) == HasAttr(n) /\ DecimalOf(AttrText(n)) = None
BadCoordinate == Opened /\ (BadAttr("lat") \/ BadAttr("lon"))

C3_BadValueAlwaysCastError ==
    BadCoordinate => (FailedCast("latitude") \/ FailedCast("longitude"))

(***************************************************************************)
(* C3, amended.  A lat or lon attribute whose value does not parse never   *)
(* yields a record and never panics.  The error is the latitude cast error *)
(* when lat is the bad one, the longitude cast error when lat parses and   *)
(* lon is the bad one, and the missing-attribute error (naming latitude)   *)
(* when lon is bad and lat is lacking, because latitude is looked up       *)
(* before longitude is cast.                                               *)
(***************************************************************************)
C3_BadCoordinate ==
    BadCoordinate =>
        /\ pc = "failed" /\ ~result.ok /\ waypoint = None
        /\ Len(stream) = 1 /\ pos = 1
        /\ IF BadAttr("lat") THEN FailedCast("latitude")
           ELSE IF HasAttr("lat") THEN FailedCast("longitude")
           ELSE result = LacksAttribute("latitude")

C3_Witness ==
    /\ BadCoordinate
    /\ ~HasAttr("lat")
    /\ result = LacksAttribute("latitude")

(***************************************************************************)
(* C4.  A start tag at the element's level whose name the grammar version  *)
(* does not recognize makes the call fail with InvalidChildElement that    *)
(* carries the child's name and the element's name "waypoint", whatever    *)
(* children were accepted before; the start tag stays in the reader and no *)
(* event after it is pulled.                                               *)
(***************************************************************************)
C4_UnknownChild ==
    \A i \in ChildStarts :
        ~Recognized(stream[i].name, version) =>
            /\ pc = "failed"
            /\ result = Err("InvalidChildElement", stream[i].name, "waypoint")
            /\ waypoint = None
            /\ pos = i - 1
            /\ Len(stream) = i

C4_Witness ==
    /\ pc = "failed"
    /\ Len(stream) >= 5
    /\ stream[Len(stream)] = StartElement("foo", <<>>)
    /\ pos = Len(stream) - 1
    /\ result.kind = "InvalidChildElement"

(***************************************************************************)
(* C5.  A speed child is accepted exactly under Gpx10: there it is         *)
(* consumed and its value stored in the speed field; under any other       *)
(* version its start tag fails the call with InvalidChildElement and stays *)
(* in the reader.                                                          *)
(***************************************************************************)
C5_SpeedGating ==
    \A i \in ChildrenNamed("speed") :
        IF version = Gpx10
        THEN /\ Len(stream) >= i + 2 /\ pos >= i + 2
             /\ stream[i + 2] = EndElement("speed")
             /\ IF IsSome(DecimalOf(stream[i + 1].text))
                THEN /\ (Len(stream) = i + 2 /\ ~closed) => pc = "loop"
                     /\ (pc = "loop" /\ i = Last(ChildrenNamed("speed"))) =>
                            waypoint.speed = DecimalOf(stream[i + 1].text)
                     /\ (pc = "done" /\ i = Last(ChildrenNamed("speed"))) =>
                            result.value.speed = DecimalOf(stream[i + 1].text)
                ELSE /\ Len(stream) = i + 2 /\ pc = "failed"
                     /\ result = Msg("error while casting speed to f64")
        ELSE /\ Len(stream) = i /\ pos = i - 1
             /\ pc = "failed"
             /\ result = Err("InvalidChildElement", "speed", "waypoint")

C5_Witness ==
    /\ version = Gpx10
    /\ pc = "done"
    /\ ChildrenNamed("speed") # {}
    /\ IsSome(result.value.speed)

C5_WitnessOtherVersion ==
    /\ version = Gpx11
    /\ pc = "failed"
    /\ ChildrenNamed("speed") # {}
    /\ pos >= 4

(***************************************************************************)
(* C6.  When a call succeeds, the field of every single-valued child tag   *)
(* that occurs in the element holds the value of the tag's last            *)
(* occurrence; occurring again is no error.                                *)
(***************************************************************************)
C6_LastOccurrenceWins ==
    pc = "done" =>
        \A tag \in ScalarTags :
            ChildrenNamed(tag) # {} =>
                /\ result.ok
                /\ result.value[FieldOf(tag)] =
                       ValueOf(tag, stream[Last(ChildrenNamed(tag)) + 1].text)

C6_Witness ==
    /\ pc = "done"
    /\ \E tag \in ScalarTags :
         \E i, j \in ChildrenNamed(tag) :
            /\ i < j
            /\ ValueOf(tag, stream[i + 1].text) # ValueOf(tag, stream[j + 1].text)
            /\ result.value[FieldOf(tag)] = ValueOf(tag, stream[j + 1].text)

(***************************************************************************)
(* C7.  The links of the record are the link children of the element, one  *)
(* entry each, in stream order, while the element is parsed and when it is *)
(* returned.                                                               *)
(***************************************************************************)
RECURSIVE LinksUpTo(_)
LinksUpTo(i) ==
    IF i < 2 THEN <<>>
    ELSE IF stream[i].kind = "start" /\ stream[i].name = "link" /\ Depth(i) = 1
    THEN Append(LinksUpTo(i - 1), [href |-> stream[i].attributes[1].value])
    ELSE LinksUpTo(i - 1)

C7_LinksInOrder ==
    /\ pc = "loop" => waypoint.links = LinksUpTo(Len(stream))
    /\ pc = "done" => result.ok /\ result.value.links = LinksUpTo(Len(stream))

C7_Witness ==
    /\ pc = "done"
    /\ Len(result.value.links) = 2
    /\ result.value.links[1] # result.value.links[2]
    /\ Cardinality(ChildStarts) = 2

(***************************************************************************)
(* C8.  An end tag at the element's level that carries the call's tagname  *)
(* ends the call with the record: the call has consumed exactly the events *)
(* from its start tag to that end tag, nothing is left peeked, and a       *)
(* further call on the context starts at the event after the end tag.      *)
(***************************************************************************)
OwnEndTag(i) ==
    /\ i \in 2..Len(stream)
    /\ stream[i] = EndElement(tagname)
    /\ Depth(i) = 1

C8_ReturnsAtEndTag ==
    /\ (Opened /\ \E i \in 2..Len(stream) : OwnEndTag(i)) => pc = "done"
    /\ pc = "done" =>
          /\ result.ok
          /\ Opened
          /\ OwnEndTag(Len(stream))
          /\ pos = Len(stream)
          /\ \A i \in 2..(Len(stream) - 1) : ~(stream[i].kind = "end" /\ Depth(i) = 1)

C8_NextCallStartsAfter ==
    [][pc = "done" /\ pc' # "done" =>
          /\ before' = before + Len(stream)
          /\ Len(stream') = 1 /\ pos' = 1
          /\ stream'[1].kind = "start"]_vars

C8_EndTagThenSibling == []C8_ReturnsAtEndTag /\ C8_NextCallStartsAfter

C8_Witness ==
    /\ pc = "done"
    /\ before >= 2
    /\ Len(stream) >= 4

(***************************************************************************)
(* C9.  As claimed: an end tag of another name fails the call with         *)
(* InvalidClosingTag naming the tag found and the tagname the call was     *)
(* given, and the end tag stays in the reader.                             *)
(***************************************************************************)
MismatchedEndTag ==
    /\ Opened
    /\ Len(stream) >= 2
    /\ stream[Len(stream)].kind = "end"
    /\ Depth(Len(stream)) = 1
    /\ stream[Len(stream)].name # tagname

C9_ClosingTagErrorNamesTagname ==
    MismatchedEndTag =>
        /\ pc = "failed"
        /\ result = Err("InvalidClosingTag", stream[Len(stream)].name, tagname)
        /\ pos = Len(stream) - 1

\* what the code does on that end tag
C9_ClosingTagErrorAsCoded ==
    MismatchedEndTag =>
        /\ pc = "failed"
        /\ result = Err("InvalidClosingTag", stream[Len(stream)].name, "waypoint")
        /\ pos = Len(stream) - 1

(***************************************************************************)
(* C10.  When the reader reports the end of the stream to the loop, right  *)
(* after the opening tag or after children and skipped events, the call    *)
(* fails with MissingClosingTag and the record built so far is not         *)
(* returned.                                                               *)
(***************************************************************************)
C10_StreamExhausted ==
    closed =>
        /\ pc = "failed"
        /\ ~result.ok
        /\ result = Err("MissingClosingTag", "waypoint", "")
        /\ waypoint = None
        /\ pos = Len(stream)

C10_Witness ==
    /\ closed
    /\ pc = "failed"
    /\ Len(stream) >= 5
    /\ \E i \in 2..Len(stream) : stream[i] \in SkippedEvents
    /\ ChildStarts # {}

C10_WitnessAtOnce == closed /\ pc = "failed" /\ Len(stream) = 1

(***************************************************************************)
(* C11.  A call ends in exactly one of two outcomes, a record or an error. *)
(* A call that fails after children were assigned hands back the error     *)
(* alone, with nothing of the record built so far, and once it has failed  *)
(* no further event is produced or consumed.                               *)
(***************************************************************************)
C11_Outcome ==
    /\ pc \in {"idle", "loop", "done", "failed"}
    /\ pc = "loop" => result = None /\ waypoint # None
    /\ pc = "done" =>
         /\ result.ok /\ result = Ok(result.value)
         /\ DOMAIN result.value = DOMAIN WaypointNew(PointNew(None, None))
         /\ waypoint = None
    /\ pc = "failed" =>
         /\ ~result.ok /\ result.value = None
         /\ result = Err(result.kind, result.a, result.b)
         /\ waypoint = None

C11_OneOutcome ==
    /\ []C11_Outcome
    /\ [][pc = "failed" => pc' = "failed" /\ pos' = pos /\ stream' = stream
                                          /\ result' = result]_vars

\* a cast fails on the second child, after the first was assigned
C11_Witness ==
    /\ pc = "failed"
    /\ result.kind = "Msg"
    /\ Cardinality(ChildStarts) = 2
    /\ pos = Len(stream)
    /\ Len(stream) = 7

(***************************************************************************)
(* C12.  A recognized single-valued child assigns its own field and        *)
(* nothing else: the step that parses the child leaves every other field,  *)
(* the position and the links as they were.  In a returned record a field  *)
(* is present exactly when its tag occurred among the children.            *)
(***************************************************************************)
C12_PresentIffOccurred ==
    pc = "done" =>
        \A tag \in ScalarTags :
            (result.value[FieldOf(tag)] # None) <=> (ChildrenNamed(tag) # {})

C12_OwnFieldOnly ==
    /\ []C12_PresentIffOccurred
    /\ [][(/\ pc = "loop" /\ pc' = "loop"
           /\ Len(stream') > Len(stream)
           /\ stream'[Len(stream) + 1].kind = "start"
           /\ stream'[Len(stream) + 1].name \in ScalarTags)
          => LET own == FieldOf(stream'[Len(stream) + 1].name)
             IN  /\ waypoint'[own] # None
                 /\ \A f \in (DOMAIN waypoint) \ {own} :
                        waypoint'[f] = waypoint[f]]_vars

\* the record of <name>..</name><vdop>..</vdop>, as in the crate's test
C12_Witness ==
    /\ pc = "done"
    /\ ChildrenNamed("name") # {} /\ ChildrenNamed("vdop") # {}
    /\ result.value.name # None /\ result.value.vdop # None
    /\ \A f \in OptionalFields \ {"name", "vdop"} : result.value[f] = None

(***************************************************************************)
(* The record of a stream of events, computed outside the state machine:   *)
(* the children of the element are cut out of the stream and the arms are  *)
(* applied to them one after the other.                                    *)
(***************************************************************************)
\* the events of s from the i-th on without those that are neither a start
\* nor an end tag and lie directly inside the element (depth 1)
RECURSIVE StripFrom(_, _, _)
StripFrom(s, i, depth) ==
    IF i > Len(s) THEN <<>>
    ELSE CASE s[i].kind = "start" -> <<s[i]>> \o StripFrom(s, i + 1, depth + 1)
           [] s[i].kind = "end" -> <<s[i]>> \o StripFrom(s, i + 1, depth - 1)
           [] OTHER -> IF depth = 1 THEN StripFrom(s, i + 1, depth)
                       ELSE <<s[i]>> \o StripFrom(s, i + 1, depth)
Strip(s) == StripFrom(s, 1, 0)

\* the children of the element s opens, each the sequence of its events;
\* cur holds the events of the child that is open at event i
RECURSIVE SplitChildren(_, _, _, _)
SplitChildren(s, i, depth, cur) ==
    IF i > Len(s) THEN <<>>
    ELSE CASE s[i].kind = "start" ->
                SplitChildren(s, i + 1, depth + 1, Append(cur, s[i]))
           [] s[i].kind = "end" ->
                IF depth = 0 THEN <<>>
                ELSE IF depth = 1
                THEN <<Append(cur, s[i])>> \o SplitChildren(s, i + 1, 0, <<>>)
                ELSE SplitChildren(s, i + 1, depth - 1, Append(cur, s[i]))
           [] OTHER ->
                SplitChildren(s, i + 1, depth,
                              IF depth = 0 THEN cur ELSE Append(cur, s[i]))
Children(s) == SplitChildren(s, 2, 0, <<>>)

\* the arms applied to the children elems in order, starting from record w
RECURSIVE RunChildren(_, _)
RunChildren(w, elems) ==
    IF elems = <<>> THEN w
    ELSE LET evs == Head(elems)
             arm == ArmOf(evs[1].name, version)
             v   == Cast(arm, SubParser(arm, evs).value)
         IN  RunChildren(Store(arm, w, Unwrap(v)), Tail(elems))

RecordOfChildren(s, elems) == RunChildren(Attributes(s[1].attributes).value, elems)
RecordOf(s) == RecordOfChildren(s, Children(s))

(***************************************************************************)
(* C13.  An event that is neither a start tag nor an end tag, met between  *)
(* the children, is consumed, one event per iteration, and leaves the      *)
(* record as it was; the record returned is the record of the stream       *)
(* without these events.                                                   *)
(***************************************************************************)
Skipped(ev) == ev.kind \notin {"start", "end", "err"}
C13_RecordOfStripped ==
    pc = "done" =>
        result.value = RecordOf(Strip(stream))

C13_SkippedEvents ==
    /\ []C13_RecordOfStripped
    /\ [][(/\ pc = "loop"
           /\ Len(stream') = Len(stream) + 1
           /\ Skipped(stream'[Len(stream')]))
          => (pc' = "loop" /\ pos' = pos + 1 /\ waypoint' = waypoint
                           /\ stream' = Append(stream, stream'[Len(stream')]))]_vars

\* comments before and after the child of a returned record
C13_Witness ==
    /\ pc = "done"
    /\ Len(stream) = 8
    /\ stream[2] = Comment /\ stream[6] = Comment
    /\ Len(Strip(stream)) = 5
    /\ result.value.name = Some(<<"a">>)

(***************************************************************************)
(* C14.  When the reader answers a peek with an error, the call fails at   *)
(* once with the message "error while parsing waypoint event": the         *)
(* erroring item is not consumed, no event is read after it and no record  *)
(* is returned.                                                            *)
(***************************************************************************)
C14_ReaderError ==
    \A i \in 1..Len(stream) :
        stream[i].kind = "err" =>
            /\ i = Len(stream)
            /\ pos = i - 1
            /\ pc = "failed"
            /\ result = Msg("error while parsing waypoint event")
            /\ waypoint = None

\* the reader fails after a child was parsed
C14_Witness ==
    /\ pc = "failed"
    /\ stream[Len(stream)] = ReaderError
    /\ ChildStarts # {}
    /\ pos = Len(stream) - 1

(***************************************************************************)
(* C15.  An extensions child is handed to the extensions sub-parser under  *)
(* either grammar version and its value is dropped: when the loop resumes  *)
(* after it, the cursor stands after the end tag of the extensions element *)
(* and the record is the record of the children before it.                 *)
(***************************************************************************)
C15_ExtensionsDropped ==
    /\ pc = "failed" /\ result.kind = "InvalidChildElement"
            /\ stream[Len(stream)].kind = "start"
        => stream[Len(stream)].name # "extensions"
    /\ pc = "loop" /\ stream[Len(stream)] = EndElement("extensions")
        => LET cs == Children(stream)
               k  == Len(cs)
           IN  /\ k >= 1
               /\ cs[k][1] = StartElement("extensions", <<>>)
               /\ pos = Len(stream)
               /\ waypoint = RecordOfChildren(stream, SubSeq(cs, 1, k - 1))

\* <name>a</name> and then extensions that hold a <name/> of their own
C15_Witness ==
    /\ pc = "loop"
    /\ Len(stream) = 8
    /\ stream[2] = StartElement("name", <<>>)
    /\ stream[5] = StartElement("extensions", <<>>)
    /\ stream[6] = StartElement("name", <<>>)
    /\ stream[8] = EndElement("extensions")
    /\ waypoint.name = Some(<<"a">>)
    /\ pos = 8

(***************************************************************************)
(* C16.  What a child assigns does not depend on the children before it:   *)
(* when the children other than links bear pairwise different tags, the    *)
(* record returned is the record of the same children in any other order   *)
(* that keeps the links in their order, under the same grammar version.    *)
(***************************************************************************)
IsLink(evs) == evs[1].name = "link"
DistinctTags(cs) ==
    \A i, j \in 1..Len(cs) :
        (i # j /\ ~IsLink(cs[i]) /\ ~IsLink(cs[j])) => cs[i][1].name # cs[j][1].name
\* the orders of n children, as bijections on their indices
Orders(n) == { q \in [1..n -> 1..n] : \A i, j \in 1..n : i # j => q[i] # q[j] }
KeepsLinks(cs, q) ==
    \A i, j \in 1..Len(cs) :
        (i < j /\ IsLink(cs[q[i]]) /\ IsLink(cs[q[j]])) => q[i] < q[j]
Reordered(cs, q) == [i \in 1..Len(cs) |-> cs[q[i]]]

C16_OrderIndependent ==
    pc = "done" =>
        LET cs == Children(stream)
        IN  DistinctTags(cs) =>
                \A q \in Orders(Len(cs)) :
                    KeepsLinks(cs, q) =>
                        RecordOfChildren(stream, Reordered(cs, q)) = result.value

\* <cmt> before <name>: the record is also that of <name> before <cmt>
C16_Witness ==
    /\ pc = "done"
    /\ Len(stream) = 8
    /\ stream[2] = StartElement("cmt", <<>>)
    /\ stream[5] = StartElement("name", <<>>)
    /\ result.value.comment # None /\ result.value.name # None
    /\ \E q \in Orders(2) :
          /\ q[1] = 2
          /\ RecordOfChildren(stream, Reordered(Children(stream), q)) = result.value

(***************************************************************************)
(* C17.  On a finite stream of events every call ends, with a record or    *)
(* with an error: an iteration of the loop either returns or moves the     *)
(* cursor forward by at least one event, so the loop never meets the same  *)
(* peeked event twice.                                                     *)
(***************************************************************************)
C17_Progress ==
    [][pc = "loop" => \/ pc' \in {"done", "failed"}
                      \/ pc' = "loop" /\ pos' > pos /\ pos' = Len(stream')]_vars

\* the cursor is bounded by the events of the stream, and a call that has
\* not ended can take its next step
C17_Bounded ==
    /\ pos <= Len(stream)
    /\ Produced <= MaxEvents
    /\ pc = "loop" => ENABLED Next

C17_Terminates == []C17_Bounded /\ C17_Progress

\* a call that ended after several iterations of the loop
C17_Witness ==
    /\ pc \in {"done", "failed"}
    /\ Len(stream) = 8
    /\ \E i \in 2..7 : stream[i] = Comment
    /\ ChildStarts # {}

(***************************************************************************)
(* C18.  The grammar version of the context is read and never written: no  *)
(* step of a call changes it, whether the call succeeds or fails, so every *)
(* call made on one context sees the version the first call saw.           *)
(***************************************************************************)
C18_VersionUnchanged == [][version' = version]_vars

\* a second call on the context has met a <speed> child and has returned
C18_Witness ==
    /\ before > 0
    /\ pc = "done"
    /\ version = Gpx10
    /\ ChildrenNamed("speed") # {}
    /\ result.value.speed # None

C18_WitnessFailure ==
    /\ before > 0
    /\ pc = "failed"
    /\ version = Gpx11
    /\ stream[Len(stream)] = StartElement("speed", <<>>)

(***************************************************************************)
(* C19.  The DGPS station id of a returned record is an integer from 0 to  *)
(* 1023: a <dgpsid> whose text is outside that range or is no integer      *)
(* makes the call fail with the cast error of the DGPS station id.         *)
(* The code does not keep this: it parses the text as a u16 and checks no  *)
(* range, so 1024 is stored (C19_DgpsidAsCoded is what holds).             *)
(***************************************************************************)
DgpsidOf(t) == ParseUnsigned(Trim(t))
C19_DgpsidInRange ==
    /\ pc = "done" =>
          (result.value.dgpsid = None \/ Unwrap(result.value.dgpsid) \in 0..1023)
    /\ \A i \in ChildrenNamed("dgpsid") :
          (Len(stream) >= i + 2
             /\ (DgpsidOf(stream[i + 1].text) = None
                   \/ Unwrap(DgpsidOf(stream[i + 1].text)) \notin 0..1023))
          => (pc = "failed" /\ Len(stream) = i + 2
                /\ result = Msg("error while casting DGPS station ID to u16"))

\* what the code does: the id is any value of a u16
C19_DgpsidAsCoded ==
    /\ pc = "done" =>
          (result.value.dgpsid = None \/ Unwrap(result.value.dgpsid) \in 0..U16Max)
    /\ \A i \in ChildrenNamed("dgpsid") :
          (Len(stream) >= i + 2
             /\ (DgpsidOf(stream[i + 1].text) = None
                   \/ Unwrap(DgpsidOf(stream[i + 1].text)) \notin 0..U16Max))
          => (pc = "failed" /\ Len(stream) = i + 2
                /\ result = Msg("error while casting DGPS station ID to u16"))

C19_WitnessStored ==
    /\ pc = "done"
    /\ result.value.dgpsid = Some(1024)

====
